---- MODULE Spec2Model ----
(***************************************************************************)
(* Model of the offer application routes of unitip:                        *)
(*   src/src/app/api/v1/offers/[offer_id]/apply/route.ts  (POST, DELETE,   *)
(*   PATCH) over the tables "offers" and "offer_applicants".               *)
(* Every handler invocation is a process; one action per database call,    *)
(* so that invocations interleave at the granularity of their awaits.      *)
(* The part of a handler before its first database call touches no shared  *)
(* state and is one action (the *_Begin actions).                          *)
(*   src/src/app/api/v1/offers/[offer_id]/applicants/route.ts  (GET) over  *)
(*   the tables "single_offers" and "single_offer_applicants".             *)
(*   src/src/app/chats/[userId]/page.tsx  (Client): the chat view of one   *)
(*   user toward another, its query, its two mutations and its use of the  *)
(*   pub/sub client.                                                       *)
(***************************************************************************)
EXTENDS Integers, FiniteSets, Sequences, TLC

(* ------------------------------ bounds -------------------------------- *)
\* handler invocations that can be in flight at the same time
MaxProcs == 2
\* ids the store hands out to inserted offer_applicants rows
MaxRows == 2
\* the clock runs from 0 to MaxTime
MaxTime == 1

\* messages appended to the chat store in a behaviour
MaxMessages == 2

Procs == 1..MaxProcs

(* ------------------------------ inputs -------------------------------- *)
Customers == {"c1", "c2"}
Freelancers == {"f1"}
Users == Customers \cup Freelancers
\* a request's bearer credential: a user's valid token, or none/invalid
NoToken == "no-token"
Credentials == Users \cup {NoToken}

OfferIds == {"o1", "o2"}
\* the route parameter as the handlers validate it: "" fails z.string().min(1)
EmptyId == ""
OfferIdParams == OfferIds \cup {EmptyId}

\* the seven detail fields of a request body, taken as one value
Details == {"d1", "d2"}
\* a body request.json() rejects, and a body the zod schema rejects
Malformed == "malformed-json"
Invalid == "schema-invalid"
Bodies == Details \cup {Malformed, Invalid}
NoBody == "no-body"

(* --------------------------- domain enums ----------------------------- *)
PENDING == "pending"
ACCEPTED == "accepted"
ON_THE_WAY == "on_the_way"
DONE == "done"
ApplicantStatus == {PENDING, ACCEPTED, ON_THE_WAY, DONE}

AVAILABLE == "available"
CLOSED == "closed"
OfferStatus == {AVAILABLE, CLOSED}

(* ---------------------------- responses ------------------------------- *)
MsgForbidden == "Anda tidak memiliki akses untuk melakukan aksi ini!"
MsgUnavailable == "Offer tidak tersedia atau sudah berakhir!"
MsgDuplicate == "Anda sudah mengajukan aplikasi untuk offer ini!"
MsgNothingDeleted == "Tidak ada data yang dihapus karena tidak ada aplikasi yang ditemukan."
MsgNoApplication == "Aplikasi tidak ditemukan."
MsgUpdateFailed == "Gagal memperbarui aplikasi."

NoId == 0

Response(kind, message, id) == [kind |-> kind, message |-> message, id |-> id]
respondWithSuccess(id) == Response("Success", "", id)
respondWithBadRequest == Response("BadRequest", "", NoId)
respondWithUnauthorized == Response("Unauthorized", "", NoId)
respondWithForbidden(m) == Response("Forbidden", m, NoId)
respondWithNotFound(m) == Response("NotFound", m, NoId)
respondWithConflict(m) == Response("Conflict", m, NoId)
respondWithServerError == Response("ServerError", "", NoId)
\* a handler that falls off its end returns no Response at all
NoResponse == Response("NoResponse", "", NoId)

(* ------------------------------ state --------------------------------- *)
VARIABLES
    offers,            \* rows of table "offers"
    offer_applicants,  \* rows of table "offer_applicants"
    nextId,            \* the next id the store gives to an inserted row
    now,               \* NOW() of the store
    procs,             \* the handler invocations in flight
    last,              \* the invocation that returned in the last step, with its response
    acked,             \* history: ids of the rows whose POST returned Success
    single_offers,           \* rows of table "single_offers"
    single_offer_applicants, \* rows of table "single_offer_applicants"
    outbox,            \* what the last step published on the pub/sub transport
    messages,          \* the stored chat messages, in order of creation
    nextMessage,       \* id of the next chat message
    view,              \* per user: the chat view the user has open, if any
    mutation,          \* per user: the server action the user's view awaits
    inflight,          \* per user: notifications on their way to the user's client
    received           \* the notification the last step handed to a client

\* the tables the GET handler reads
getTables == <<single_offers, single_offer_applicants>>

\* the chat store, the chat views and the transport between them
chatVars == <<outbox, messages, nextMessage, view, mutation, inflight, received>>

\* what the apply handlers neither read nor write
elsewhere == <<getTables, chatVars>>

vars == <<offers, offer_applicants, nextId, now, procs, last, acked, elsewhere>>

\* a process serving no request
Idle ==
    [pc |-> "idle", method |-> "none", cred |-> NoToken, offer_id |-> EmptyId,
     body |-> NoBody, result |-> NoId]

NoRequest ==
    [method |-> "none", cred |-> NoToken, offer_id |-> EmptyId, body |-> NoBody,
     response |-> NoResponse, result |-> NoId]

\* the auth collaborator: null for a missing or invalid credential, else {userId, role}
\* the users who chat, and those of them whose views are followed
ChatUsers == {"a-1", "a-2", "1-a"}
Viewers == {"a-1", "a-2"}
\* the users a viewer opens a view toward: the first viewer has two
\* counterparts, the second one
Counterparts(u) == IF u = "a-1" THEN {"a-2", "1-a"} ELSE {"a-1"}
NoUser == "no-user"

\* no chat view is open, no message stored
ClosedView ==
    [toUser |-> NoUser, subscribed |-> "no", fetching |-> "idle", data |-> <<>>]
NoMutation == [kind |-> "none", toUserId |-> NoUser, stage |-> "none"]
NoDelivery == [to |-> NoUser, topic |-> ""]
NoChat ==
    /\ outbox = <<>>
    /\ received = NoDelivery
    /\ messages = <<>>
    /\ nextMessage = 1
    /\ view = [u \in Viewers |-> ClosedView]
    /\ mutation = [u \in Viewers |-> NoMutation]
    /\ inflight = [u \in Viewers |-> {}]

NoAuthorization == [userId |-> NoToken, role |-> "none"]
verifyBearerToken(cred) ==
    IF cred = NoToken THEN NoAuthorization
    ELSE [userId |-> cred, role |-> IF cred \in Customers THEN "customer" ELSE "freelancer"]

\* the available_until of the offers: open at time 0, over from time 1 on
Deadlines == {1}

\* the rows the offers table can hold before any apply
OfferRows ==
    [id : OfferIds, offer_status : OfferStatus, available_until : Deadlines]

Init ==
    /\ offers \in SUBSET OfferRows
    /\ \A a, b \in offers : a.id = b.id => a = b
    /\ offer_applicants = {}
    /\ nextId = 1
    /\ now = 0
    /\ procs = [p \in Procs |-> Idle]
    /\ last = NoRequest
    /\ acked = {}
    /\ single_offers = {}
    /\ single_offer_applicants = {}
    /\ NoChat

(* --------------------------- store queries ---------------------------- *)
\* rows of offer_applicants with customer = userId and offer = offer_id
ApplicationsOf(userId, offer_id) ==
    {a \in offer_applicants : a.customer = userId /\ a.offer = offer_id}

\* a handler returns `response`: the invocation ends
Return(p, response) ==
    /\ last' = [method |-> procs[p].method, cred |-> procs[p].cred,
                offer_id |-> procs[p].offer_id, body |-> procs[p].body,
                response |-> response, result |-> procs[p].result]
    /\ procs' = [procs EXCEPT ![p] = Idle]

\* a handler returns before its first database call
ReturnAtOnce(method, cred, offer_id, body, response) ==
    /\ last' = [method |-> method, cred |-> cred, offer_id |-> offer_id,
                body |-> body, response |-> response, result |-> NoId]
    /\ UNCHANGED procs

\* process p is at the database call pc. A step is taken only once the response
\* of the step before has left (Deliver), so `last` is read in the state the
\* handler returned in.
At(p, pc) ==
    /\ last = NoRequest
    /\ procs[p].pc = pc

\* a new invocation is served by the first free process
FirstIdle(p) ==
    /\ At(p, "idle")
    /\ \A q \in Procs : q < p => procs[q].pc # "idle"

\* a handler reaches its first database call
Proceed(p, method, cred, offer_id, body, pc) ==
    /\ procs' = [procs EXCEPT ![p] =
                    [pc |-> pc, method |-> method, cred |-> cred,
                     offer_id |-> offer_id, body |-> body, result |-> NoId]]
    /\ UNCHANGED last

\* a handler goes on to its next database call
Goto(p, pc, result) ==
    /\ procs' = [procs EXCEPT ![p].pc = pc, ![p].result = result]
    /\ UNCHANGED last

\* a database call throws (storage fault): the handler's catch answers ServerError
Throws(p, pc) ==
    /\ At(p, pc)
    /\ Return(p, respondWithServerError)
    /\ UNCHANGED <<offers, offer_applicants, nextId, now, acked>>
    /\ UNCHANGED elsewhere

(* ------------------------------- POST --------------------------------- *)
\* lines 31-65: the zod schema of POST (the same at lines 256-290 for PATCH)
SchemaAccepts(body, offer_id) == body \in Details /\ offer_id # EmptyId

\* lines 18-84: request.json(), schema, bearer token, role
POST_Begin(p, cred, offer_id, body) ==
    /\ FirstIdle(p)
    /\ LET authorization == verifyBearerToken(cred) IN
       IF body = Malformed
         THEN ReturnAtOnce("POST", cred, offer_id, body, respondWithServerError)
       ELSE IF ~SchemaAccepts(body, offer_id)
         THEN ReturnAtOnce("POST", cred, offer_id, body, respondWithBadRequest)
       ELSE IF authorization = NoAuthorization
         THEN ReturnAtOnce("POST", cred, offer_id, body, respondWithUnauthorized)
       ELSE IF authorization.role # "customer"
         THEN ReturnAtOnce("POST", cred, offer_id, body, respondWithForbidden(MsgForbidden))
       ELSE Proceed(p, "POST", cred, offer_id, body, "selectOffer")
    /\ UNCHANGED <<offers, offer_applicants, nextId, now, acked>>
    /\ UNCHANGED elsewhere

\* SingleOffer without the condition on available_until
SingleOffer_NoExpiry(offer_id) ==
    {o \in offers : o.id = offer_id /\ o.offer_status = "available"}

\* lines 86-92: the offers the availability query selects
SingleOffer(offer_id) ==
    {o \in offers : /\ o.id = offer_id
                    /\ o.offer_status = "available"
                    /\ o.available_until > now}

\* lines 86-98
POST_SelectOffer(p) ==
    /\ At(p, "selectOffer")
    /\ IF SingleOffer(procs[p].offer_id) = {}
         THEN Return(p, respondWithConflict(MsgUnavailable))
         ELSE Goto(p, "selectExisting", NoId)
    /\ UNCHANGED <<offers, offer_applicants, nextId, now, acked>>
    /\ UNCHANGED elsewhere

\* lines 100-111
POST_SelectExisting(p) ==
    /\ At(p, "selectExisting")
    /\ IF ApplicationsOf(procs[p].cred, procs[p].offer_id) # {}
         THEN Return(p, respondWithConflict(MsgDuplicate))
         ELSE Goto(p, "insert", NoId)
    /\ UNCHANGED <<offers, offer_applicants, nextId, now, acked>>
    /\ UNCHANGED elsewhere

\* NewApplication with a row that starts as accepted
NewApplication_Accepted(id, userId, offer_id, body) ==
    [id |-> id, applicant_status |-> ACCEPTED, details |-> body,
     customer |-> userId, offer |-> offer_id]

\* lines 113-126: the row POST inserts
NewApplication(id, userId, offer_id, body) ==
    [id |-> id, applicant_status |-> PENDING, details |-> body,
     customer |-> userId, offer |-> offer_id]

\* lines 113-130
POST_Insert(p) ==
    /\ At(p, "insert")
    /\ nextId <= MaxRows
    /\ offer_applicants' = offer_applicants \cup
          {NewApplication(nextId, procs[p].cred, procs[p].offer_id, procs[p].body)}
    /\ nextId' = nextId + 1
    /\ Goto(p, "updateOffer", nextId)
    /\ UNCHANGED <<offers, now, acked>>
    /\ UNCHANGED elsewhere

\* lines 132-138: the offers table after the status update
UpdateOfferStatus(offer_id) ==
    {IF o.id = offer_id THEN [o EXCEPT !.offer_status = "on_progress"] ELSE o : o \in offers}

\* lines 132-143
POST_UpdateOffer(p) ==
    /\ At(p, "updateOffer")
    /\ offers' = UpdateOfferStatus(procs[p].offer_id)
    /\ acked' = acked \cup {procs[p].result}
    /\ Return(p, respondWithSuccess(procs[p].result))
    /\ UNCHANGED <<offer_applicants, nextId, now>>
    /\ UNCHANGED elsewhere

\* lines 144-147: a database call of POST throws
POST_Throws(p) ==
    \E pc \in {"selectOffer", "selectExisting", "insert", "updateOffer"} : Throws(p, pc)

(* ------------------------------ DELETE -------------------------------- *)
\* DELETE_Begin without the role check of lines 182-186
DELETE_Begin_NoRoleCheck(p, cred, offer_id) ==
    /\ FirstIdle(p)
    /\ LET authorization == verifyBearerToken(cred) IN
       IF offer_id = EmptyId
         THEN ReturnAtOnce("DELETE", cred, offer_id, NoBody, respondWithBadRequest)
       ELSE IF authorization = NoAuthorization
         THEN ReturnAtOnce("DELETE", cred, offer_id, NoBody, respondWithUnauthorized)
       ELSE Proceed(p, "DELETE", cred, offer_id, NoBody, "deleteFrom")
    /\ UNCHANGED <<offers, offer_applicants, nextId, now, acked>>
    /\ UNCHANGED elsewhere

\* lines 159-186: the offer id, bearer token, role
DELETE_Begin(p, cred, offer_id) ==
    /\ FirstIdle(p)
    /\ LET authorization == verifyBearerToken(cred) IN
       IF offer_id = EmptyId
         THEN ReturnAtOnce("DELETE", cred, offer_id, NoBody, respondWithBadRequest)
       ELSE IF authorization = NoAuthorization
         THEN ReturnAtOnce("DELETE", cred, offer_id, NoBody, respondWithUnauthorized)
       ELSE IF authorization.role # "customer"
         THEN ReturnAtOnce("DELETE", cred, offer_id, NoBody, respondWithForbidden(MsgForbidden))
       ELSE Proceed(p, "DELETE", cred, offer_id, NoBody, "deleteFrom")
    /\ UNCHANGED <<offers, offer_applicants, nextId, now, acked>>
    /\ UNCHANGED elsewhere

\* DeletedRows without the condition on customer
DeletedRows_AnyCustomer(userId, offer_id) ==
    {a \in offer_applicants : a.offer = offer_id}

\* lines 189-193: the rows the delete statement removes
DeletedRows(userId, offer_id) ==
    {a \in offer_applicants : a.customer = userId /\ a.offer = offer_id}

\* lines 188-204; executeTakeFirstOrThrow throws when no row was deleted
DELETE_DeleteFrom(p) ==
    /\ At(p, "deleteFrom")
    /\ LET deleted == DeletedRows(procs[p].cred, procs[p].offer_id) IN
       /\ offer_applicants' = offer_applicants \ deleted
       /\ acked' = acked \ {a.id : a \in deleted}
       /\ IF deleted = {}
            THEN Return(p, respondWithServerError)
            ELSE \E result \in deleted : Return(p, respondWithSuccess(result.id))
    /\ UNCHANGED <<offers, nextId, now>>
    /\ UNCHANGED elsewhere

\* lines 205-208: the delete statement throws
DELETE_Throws(p) == Throws(p, "deleteFrom")

(* ------------------------------- PATCH -------------------------------- *)
\* lines 220-306: the offer id, bearer token, request.json(), schema, role
PATCH_Begin(p, cred, offer_id, body) ==
    /\ FirstIdle(p)
    /\ LET authorization == verifyBearerToken(cred) IN
       IF offer_id = EmptyId
         THEN ReturnAtOnce("PATCH", cred, offer_id, body, respondWithBadRequest)
       ELSE IF authorization = NoAuthorization
         THEN ReturnAtOnce("PATCH", cred, offer_id, body, respondWithUnauthorized)
       ELSE IF body = Malformed
         THEN ReturnAtOnce("PATCH", cred, offer_id, body, respondWithServerError)
       ELSE IF ~SchemaAccepts(body, offer_id)
         THEN ReturnAtOnce("PATCH", cred, offer_id, body, respondWithBadRequest)
       ELSE IF authorization.role # "customer"
         THEN ReturnAtOnce("PATCH", cred, offer_id, body, respondWithForbidden(MsgForbidden))
       ELSE Proceed(p, "PATCH", cred, offer_id, body, "selectApplication")
    /\ UNCHANGED <<offers, offer_applicants, nextId, now, acked>>
    /\ UNCHANGED elsewhere

\* lines 307-325
PATCH_SelectApplication(p) ==
    /\ At(p, "selectApplication")
    /\ LET existing == ApplicationsOf(procs[p].cred, procs[p].offer_id) IN
       IF existing = {}
         THEN Return(p, respondWithNotFound(MsgNoApplication))
         ELSE \E existingApplication \in existing :
                 Goto(p, "updateApplication", existingApplication.id)
    /\ UNCHANGED <<offers, offer_applicants, nextId, now, acked>>
    /\ UNCHANGED elsewhere

\* an update keyed by the offer of the row instead of by its id
UpdateApplication_WholeOffer(id, body) ==
    {IF \E b \in offer_applicants : b.id = id /\ b.offer = a.offer
       THEN [a EXCEPT !.details = body] ELSE a : a \in offer_applicants}

\* lines 328-340: the table after the update of the row with this id
UpdateApplication(id, body) ==
    {IF a.id = id THEN [a EXCEPT !.details = body] ELSE a : a \in offer_applicants}

\* lines 327-344; execute() gives an array, so line 342 never answers, and the
\* handler ends without a Response
PATCH_UpdateApplication(p) ==
    /\ At(p, "updateApplication")
    /\ offer_applicants' = UpdateApplication(procs[p].result, procs[p].body)
    /\ Return(p, NoResponse)
    /\ UNCHANGED <<offers, nextId, now, acked>>
    /\ UNCHANGED elsewhere

\* lines 345-348: a database call of PATCH throws
PATCH_Throws(p) ==
    \E pc \in {"selectApplication", "updateApplication"} : Throws(p, pc)

(* -------------------------------- GET --------------------------------- *)
MsgOfferNotFound == "Offer tidak ditemukan!"
MsgNotOwner == "Anda tidak memiliki akses untuk melihat data ini!"

\* lines 85-87: the success envelope of GET carries the applicants
respondWithApplicants(applicants) ==
    [kind |-> "Success", message |-> "", id |-> NoId, applicants |-> applicants]

\* the freelancers a row of single_offers can belong to: the one who sends
\* requests and one who does not
Owners == Freelancers \cup {"f2"}

\* the rows the tables read by GET can hold
SingleOfferRows == [id : OfferIds, freelancer : Owners]
SingleOfferApplicantRows ==
    [id : 1..MaxRows, customer : Customers, offer : OfferIds, details : {"d1"}]

\* table "users", joined at lines 52-54
users == Users \cup Owners

InitGet ==
    /\ offers = {}
    /\ offer_applicants = {}
    /\ nextId = 1
    /\ now = 0
    /\ procs = [p \in Procs |-> Idle]
    /\ last = NoRequest
    /\ acked = {}
    /\ single_offers \in SUBSET SingleOfferRows
    /\ \A a, b \in single_offers : a.id = b.id => a = b
    /\ single_offer_applicants \in SUBSET SingleOfferApplicantRows
    /\ \A a, b \in single_offer_applicants : a.id = b.id => a = b
    /\ NoChat

\* lines 28-31: GET up to its first database call
GET_Begin(p, cred, offer_id) ==
    /\ FirstIdle(p)
    /\ IF verifyBearerToken(cred) = NoAuthorization
       THEN ReturnAtOnce("GET", cred, offer_id, NoBody, respondWithUnauthorized)
       ELSE Proceed(p, "GET", cred, offer_id, NoBody, "selectSingleOffer")
    /\ UNCHANGED <<offers, offer_applicants, nextId, now, acked>>
    /\ UNCHANGED elsewhere

\* the ownership test of line 44
IsOwner_Anyone(offer, userId) == offer.freelancer \in users

IsOwner(offer, userId) == offer.freelancer = userId

\* lines 34-48: the offer is looked up in single_offers, then its owner compared
\* with the caller
GET_SelectSingleOffer(p) ==
    /\ At(p, "selectSingleOffer")
    /\ LET found == {o \in single_offers : o.id = procs[p].offer_id}
           userId == verifyBearerToken(procs[p].cred).userId
       IN  IF found = {}
           THEN Return(p, respondWithNotFound(MsgOfferNotFound))
           ELSE IF \E offer \in found : ~IsOwner(offer, userId)
                THEN Return(p, respondWithForbidden(MsgNotOwner))
                ELSE Goto(p, "selectApplicants", NoId)
    /\ UNCHANGED <<offers, offer_applicants, nextId, now, acked>>
    /\ UNCHANGED elsewhere

\* lines 50-68: the applicants of the offer, joined with their users
SelectApplicants(offer_id) ==
    {a \in single_offer_applicants :
        a.offer = offer_id /\ \E u \in users : u = a.customer}

\* lines 70-83: what the response shows of an applicant
FormatApplicant(a) == [id |-> a.id, details |-> a.details, customer |-> a.customer]

\* lines 50-87
GET_SelectApplicants(p) ==
    /\ At(p, "selectApplicants")
    /\ Return(p, respondWithApplicants(
                    {FormatApplicant(a) : a \in SelectApplicants(procs[p].offer_id)}))
    /\ UNCHANGED <<offers, offer_applicants, nextId, now, acked>>
    /\ UNCHANGED elsewhere

\* lines 88-91: a database call of GET throws
GET_Throws(p) ==
    \E pc \in {"selectSingleOffer", "selectApplicants"} : Throws(p, pc)

(* ------------------------------- chat --------------------------------- *)
\* what the chat steps leave alone
serverVars ==
    <<offers, offer_applicants, nextId, now, procs, last, acked, getTables>>

\* the prefix every topic of the deployment carries
TopicPrefix == "unitip/"
getPrefixedTopic(topic) == TopicPrefix \o topic

\* lines 53-55: the topic the view of authenticatedUser toward toUser listens on
mqttChatMessagesSubTopic(authenticatedUser, toUser) ==
    getPrefixedTopic("chat-messages/" \o toUser \o "-" \o authenticatedUser)

\* the topic of the direction the view does not send in
mqttChatMessagesPubTopic_Inbound(authenticatedUser, toUser) ==
    getPrefixedTopic("chat-messages/" \o toUser \o "-" \o authenticatedUser)

\* lines 56-58: the topic the view announces its own messages on
mqttChatMessagesPubTopic(authenticatedUser, toUser) ==
    getPrefixedTopic("chat-messages/" \o authenticatedUser \o "-" \o toUser)

\* lines 59-61: the room topic of the counterpart
mqttChatRoomsPubTopic(authenticatedUser, toUser) ==
    getPrefixedTopic("chat-rooms/" \o toUser)

Notification(topic) == [topic |-> topic, message |-> "new notification"]

\* the messages of a store between two users, in order of creation
listMessages(store, userA, userB) ==
    SelectSeq(store, LAMBDA m : {m.from, m.to} = {userA, userB})

\* lines 104-108: the messages the query function asks for
getAllMessages(toUserId, fromUserId) == listMessages(messages, toUserId, fromUserId)

\* the stored messages once a conversation left out its own direction only
deleteConversation_OutboundOnly(authenticatedUserId, toUserId) ==
    SelectSeq(messages,
              LAMBDA m : ~(m.from = authenticatedUserId /\ m.to = toUserId))

\* the stored messages once the conversation of two users is deleted
deleteConversation(authenticatedUserId, toUserId) ==
    SelectSeq(messages, LAMBDA m : {m.from, m.to} # {authenticatedUserId, toUserId})

\* line 86, line 117, line 223: the query of the view is fetched again; a fetch
\* under way is superseded
refetchMessages(v) == [v EXCEPT !.fetching = "requested"]

\* a step of a view or of the chat store: taken once the broker has routed what
\* the step before published
ChatStep ==
    /\ outbox = <<>>
    /\ received = NoDelivery
    /\ UNCHANGED serverVars

\* lines 25-109: user u opens the chat view toward toUser; the query starts its
\* first fetch (lines 98-109) and the effect asks for the subscription
\* (lines 90-96)
Client_Mount(u, toUser) ==
    /\ ChatStep
    /\ view[u].toUser = NoUser
    /\ toUser # u
    /\ toUser \in Counterparts(u)
    /\ view' = [view EXCEPT ![u] =
                   [toUser |-> toUser, subscribed |-> "requested",
                    fetching |-> "requested", data |-> <<>>]]
    /\ UNCHANGED <<outbox, messages, nextMessage, mutation, inflight>>
    /\ UNCHANGED received

\* the broker has registered the subscription asked for at line 92
subscribe_Done(u) ==
    /\ ChatStep
    /\ view[u].subscribed = "requested"
    /\ view' = [view EXCEPT ![u].subscribed = "yes"]
    /\ UNCHANGED <<outbox, messages, nextMessage, mutation, inflight>>
    /\ UNCHANGED received

\* lines 93-95: the view is left; the effect's cleanup unsubscribes
Client_Unmount(u) ==
    /\ ChatStep
    /\ view[u].toUser # NoUser
    /\ view' = [view EXCEPT ![u] = ClosedView]
    /\ UNCHANGED <<outbox, messages, nextMessage, mutation, inflight>>
    /\ UNCHANGED received

\* lines 98-109: the query function reads the store and its result becomes the
\* data the view shows
queryFn(u) ==
    /\ ChatStep
    /\ view[u].fetching = "requested"
    /\ view' = [view EXCEPT ![u].fetching = "idle",
                            ![u].data = getAllMessages(view[u].toUser, u)]
    /\ UNCHANGED <<outbox, messages, nextMessage, mutation, inflight>>
    /\ UNCHANGED received

\* line 223: the refresh button
Refresh_Click(u) ==
    /\ ChatStep
    /\ view[u].toUser # NoUser
    /\ view[u].fetching = "idle"
    /\ view' = [view EXCEPT ![u] = refetchMessages(view[u])]
    /\ UNCHANGED <<outbox, messages, nextMessage, mutation, inflight>>
    /\ UNCHANGED received

\* lines 63-78, 238-241: the form is submitted; mutateCreate calls createMessage
onSubmit(u) ==
    /\ ChatStep
    /\ view[u].toUser # NoUser
    /\ mutation[u] = NoMutation
    /\ nextMessage <= MaxMessages
    /\ mutation' = [mutation EXCEPT ![u] =
                       [kind |-> "create", toUserId |-> view[u].toUser,
                        stage |-> "pending"]]
    /\ UNCHANGED <<outbox, messages, nextMessage, view, inflight>>
    /\ UNCHANGED received

\* line 112: createMessage stores the message
createMessage_Succeeds(u) ==
    /\ ChatStep
    /\ mutation[u].kind = "create" /\ mutation[u].stage = "pending"
    /\ nextMessage <= MaxMessages
    /\ messages' = Append(messages, [id |-> nextMessage, from |-> u,
                                     to |-> mutation[u].toUserId])
    /\ nextMessage' = nextMessage + 1
    /\ mutation' = [mutation EXCEPT ![u].stage = "succeeded"]
    /\ UNCHANGED <<outbox, view, inflight>>
    /\ UNCHANGED received

\* line 112: createMessage fails; mutateCreate has no onError
createMessage_Fails(u) ==
    /\ ChatStep
    /\ mutation[u].kind = "create" /\ mutation[u].stage = "pending"
    /\ mutation' = [mutation EXCEPT ![u] = NoMutation]
    /\ UNCHANGED <<outbox, messages, nextMessage, view, inflight>>
    /\ UNCHANGED received

\* what onSuccess publishes when it announces on the room topic only
Published_RoomOnly(authenticatedUser, toUser) ==
    <<Notification(mqttChatRoomsPubTopic(authenticatedUser, toUser))>>

\* lines 119-120: what onSuccess publishes
Published(authenticatedUser, toUser) ==
    <<Notification(mqttChatMessagesPubTopic(authenticatedUser, toUser)),
      Notification(mqttChatRoomsPubTopic(authenticatedUser, toUser))>>

\* lines 113-122: onSuccess of mutateCreate
mutateCreate_onSuccess(u) ==
    /\ ChatStep
    /\ mutation[u].kind = "create" /\ mutation[u].stage = "succeeded"
    /\ view' = [view EXCEPT ![u] =
                   IF view[u].toUser = mutation[u].toUserId
                     THEN refetchMessages(view[u]) ELSE view[u]]
    /\ outbox' = Published(u, mutation[u].toUserId)
    /\ mutation' = [mutation EXCEPT ![u] = NoMutation]
    /\ UNCHANGED <<messages, nextMessage, inflight>>
    /\ UNCHANGED received

\* the topics the views publish on
Topics ==
    {mqttChatMessagesPubTopic(u, toUser) : u \in ChatUsers, toUser \in ChatUsers}
       \cup {mqttChatRoomsPubTopic(u, toUser) : u \in ChatUsers, toUser \in ChatUsers}

\* the clients a notification on this topic is sent to: those subscribed to it
Subscribers(topic) ==
    {u \in Viewers :
        /\ view[u].subscribed = "yes"
        /\ mqttChatMessagesSubTopic(u, view[u].toUser) = topic}

\* the broker sends what was published to the clients subscribed at that time
Broker_Route ==
    /\ outbox # <<>>
    /\ inflight' = [u \in Viewers |->
                       inflight[u] \cup
                          {outbox[i].topic : i \in
                              {j \in 1..Len(outbox) : u \in Subscribers(outbox[j].topic)}}]
    /\ outbox' = <<>>
    /\ UNCHANGED <<messages, nextMessage, view, mutation>>
    /\ UNCHANGED serverVars
    /\ UNCHANGED received

\* a handler that fetches again whatever the topic
Handle_AnyTopic(v, authenticatedUser, topic) ==
    IF v.toUser # NoUser THEN refetchMessages(v) ELSE v

\* lines 82-87: onMessage of the view v of authenticatedUser
Handle(v, authenticatedUser, topic) ==
    IF v.toUser # NoUser /\ topic = mqttChatMessagesSubTopic(authenticatedUser, v.toUser)
      THEN refetchMessages(v) ELSE v

\* a notification reaches the client of u
onMessage(u, topic) ==
    /\ ChatStep
    /\ topic \in inflight[u]
    /\ inflight' = [inflight EXCEPT ![u] = @ \ {topic}]
    /\ received' = [to |-> u, topic |-> topic]
    /\ view' = [view EXCEPT ![u] = Handle(view[u], u, topic)]
    /\ UNCHANGED <<outbox, messages, nextMessage, mutation>>

\* a notification reaches the client of u and will reach it once more
onMessage_Duplicate(u, topic) ==
    /\ ChatStep
    /\ topic \in inflight[u]
    /\ received' = [to |-> u, topic |-> topic]
    /\ view' = [view EXCEPT ![u] = Handle(view[u], u, topic)]
    /\ UNCHANGED <<outbox, messages, nextMessage, mutation, inflight>>

\* a notification is lost on its way to the client of u
Broker_Lose(u, topic) ==
    /\ ChatStep
    /\ topic \in inflight[u]
    /\ inflight' = [inflight EXCEPT ![u] = @ \ {topic}]
    /\ UNCHANGED <<outbox, messages, nextMessage, view, mutation>>
    /\ UNCHANGED received

\* lines 180-187: the delete button; mutateDelete calls deleteConversation
Delete_Click(u) ==
    /\ ChatStep
    /\ view[u].toUser # NoUser
    /\ mutation[u] = NoMutation
    /\ mutation' = [mutation EXCEPT ![u] =
                       [kind |-> "delete", toUserId |-> view[u].toUser,
                        stage |-> "pending"]]
    /\ UNCHANGED <<outbox, messages, nextMessage, view, inflight>>
    /\ UNCHANGED received

\* line 125: deleteConversation removes the messages of the pair
deleteConversation_Succeeds(u) ==
    /\ ChatStep
    /\ mutation[u].kind = "delete" /\ mutation[u].stage = "pending"
    /\ messages' = deleteConversation(u, mutation[u].toUserId)
    /\ mutation' = [mutation EXCEPT ![u].stage = "succeeded"]
    /\ UNCHANGED <<outbox, nextMessage, view, inflight>>
    /\ UNCHANGED received

\* line 125: deleteConversation fails; mutateDelete has no onError
deleteConversation_Fails(u) ==
    /\ ChatStep
    /\ mutation[u].kind = "delete" /\ mutation[u].stage = "pending"
    /\ mutation' = [mutation EXCEPT ![u] = NoMutation]
    /\ UNCHANGED <<outbox, messages, nextMessage, view, inflight>>
    /\ UNCHANGED received

\* line 126: onSuccess of mutateDelete goes back, which leaves the view
mutateDelete_onSuccess(u) ==
    /\ ChatStep
    /\ mutation[u].kind = "delete" /\ mutation[u].stage = "succeeded"
    /\ view' = [view EXCEPT ![u] = ClosedView]
    /\ mutation' = [mutation EXCEPT ![u] = NoMutation]
    /\ UNCHANGED <<outbox, messages, nextMessage, inflight>>
    /\ UNCHANGED received

\* the delivery of the last step is over
Broker_Ack ==
    /\ received # NoDelivery
    /\ received' = NoDelivery
    /\ UNCHANGED <<outbox, messages, nextMessage, view, mutation, inflight>>
    /\ UNCHANGED serverVars

InitChat ==
    /\ offers = {}
    /\ offer_applicants = {}
    /\ nextId = 1
    /\ now = 0
    /\ procs = [p \in Procs |-> Idle]
    /\ last = NoRequest
    /\ acked = {}
    /\ single_offers = {}
    /\ single_offer_applicants = {}
    /\ NoChat

(* ------------------------------- clock -------------------------------- *)
Tick ==
    /\ last = NoRequest
    /\ now < MaxTime
    /\ now' = now + 1
    /\ UNCHANGED <<offers, offer_applicants, nextId, procs, last, acked>>
    /\ UNCHANGED elsewhere

(* ----------------------------- responses ------------------------------ *)
\* the response of the invocation that returned leaves the server
Deliver ==
    /\ last # NoRequest
    /\ last' = NoRequest
    /\ UNCHANGED <<offers, offer_applicants, nextId, now, procs, acked>>
    /\ UNCHANGED elsewhere

(* --------------------------- specifications --------------------------- *)
\* a step of a handler invocation served by a process of P, the requests'
\* credentials, offer ids and bodies drawn from C, O and B
Handlers(P, C, O, B) ==
    \/ \E p \in P, cred \in C, offer_id \in O, body \in B :
          POST_Begin(p, cred, offer_id, body)
    \/ \E p \in P : POST_SelectOffer(p)
    \/ \E p \in P : POST_SelectExisting(p)
    \/ \E p \in P : POST_Insert(p)
    \/ \E p \in P : POST_UpdateOffer(p)
    \/ \E p \in P : POST_Throws(p)
    \/ \E p \in P, cred \in C, offer_id \in O : DELETE_Begin(p, cred, offer_id)
    \/ \E p \in P : DELETE_DeleteFrom(p)
    \/ \E p \in P : DELETE_Throws(p)
    \/ \E p \in P, cred \in C, offer_id \in O, body \in B :
          PATCH_Begin(p, cred, offer_id, body)
    \/ \E p \in P : PATCH_SelectApplication(p)
    \/ \E p \in P : PATCH_UpdateApplication(p)
    \/ \E p \in P : PATCH_Throws(p)

\* invocations overlap, up to MaxProcs at a time. What a handler does before its
\* first database call reads no shared state, so the overlapping requests are
\* those of customers with a body the schema accepts.
Next == Handlers(Procs, Customers, OfferIds, {"d1"}) \/ Tick \/ Deliver

Spec == Init /\ [][Next]_vars

\* invocations of every caller, offer id and body, one after the other
NextSeq == Handlers({1}, Credentials, OfferIdParams, Bodies) \/ Tick \/ Deliver

SpecSeq == Init /\ [][NextSeq]_vars

\* a step of a handler invocation whose database calls all succeed
HealthyHandlers(P, C, O, B) ==
    \/ \E p \in P, cred \in C, offer_id \in O, body \in B :
          POST_Begin(p, cred, offer_id, body)
    \/ \E p \in P : POST_SelectOffer(p)
    \/ \E p \in P : POST_SelectExisting(p)
    \/ \E p \in P : POST_Insert(p)
    \/ \E p \in P : POST_UpdateOffer(p)
    \/ \E p \in P, cred \in C, offer_id \in O : DELETE_Begin(p, cred, offer_id)
    \/ \E p \in P : DELETE_DeleteFrom(p)
    \/ \E p \in P, cred \in C, offer_id \in O, body \in B :
          PATCH_Begin(p, cred, offer_id, body)
    \/ \E p \in P : PATCH_SelectApplication(p)
    \/ \E p \in P : PATCH_UpdateApplication(p)

\* invocations one after the other over a storage that never fails: a
\* ServerError is then the handler's own answer
NextHealthy ==
    HealthyHandlers({1}, Credentials, OfferIdParams, Bodies) \/ Tick \/ Deliver

SpecHealthy == Init /\ [][NextHealthy]_vars

\* invocations of GET by every caller and for every offer id, one after the
\* other, over every content of the two tables it reads
NextGet ==
    \/ \E cred \in Credentials, offer_id \in OfferIdParams : GET_Begin(1, cred, offer_id)
    \/ GET_SelectSingleOffer(1)
    \/ GET_SelectApplicants(1)
    \/ GET_Throws(1)
    \/ Deliver

SpecGet == InitGet /\ [][NextGet]_vars

\* the tables before any apply, over every content of single_offers
InitReadWrite ==
    /\ offers \in SUBSET OfferRows
    /\ \A a, b \in offers : a.id = b.id => a = b
    /\ offer_applicants = {}
    /\ nextId = 1
    /\ now = 0
    /\ procs = [p \in Procs |-> Idle]
    /\ last = NoRequest
    /\ acked = {}
    /\ single_offers \in SUBSET SingleOfferRows
    /\ \A a, b \in single_offers : a.id = b.id => a = b
    /\ single_offer_applicants = {}
    /\ NoChat

\* applies, withdrawals and reads of the applicants, by every user and one
\* after the other, over a storage that never fails
NextReadWrite ==
    \/ \E cred \in Users, offer_id \in OfferIds : POST_Begin(1, cred, offer_id, "d1")
    \/ POST_SelectOffer(1)
    \/ POST_SelectExisting(1)
    \/ POST_Insert(1)
    \/ POST_UpdateOffer(1)
    \/ \E cred \in Users, offer_id \in OfferIds : DELETE_Begin(1, cred, offer_id)
    \/ DELETE_DeleteFrom(1)
    \/ \E cred \in Users, offer_id \in OfferIds : GET_Begin(1, cred, offer_id)
    \/ GET_SelectSingleOffer(1)
    \/ GET_SelectApplicants(1)
    \/ Deliver

SpecReadWrite == InitReadWrite /\ [][NextReadWrite]_vars

\* the steps of the views, of message creation and of the transport when it
\* delivers each notification once
Notifying ==
    \/ \E u \in Viewers, toUser \in ChatUsers : Client_Mount(u, toUser)
    \/ \E u \in Viewers : subscribe_Done(u)
    \/ \E u \in Viewers : Client_Unmount(u)
    \/ \E u \in Viewers : queryFn(u)
    \/ \E u \in Viewers : onSubmit(u)
    \/ \E u \in Viewers : createMessage_Succeeds(u)
    \/ \E u \in Viewers : createMessage_Fails(u)
    \/ \E u \in Viewers : mutateCreate_onSuccess(u)
    \/ Broker_Route
    \/ Broker_Ack
    \/ \E u \in Viewers, topic \in Topics : onMessage(u, topic)

\* the steps of the deletion of a conversation
Deleting ==
    \/ \E u \in Viewers : Delete_Click(u)
    \/ \E u \in Viewers : deleteConversation_Succeeds(u)
    \/ \E u \in Viewers : deleteConversation_Fails(u)
    \/ \E u \in Viewers : mutateDelete_onSuccess(u)

\* notifications: the views, message creation and a transport that may deliver
\* a notification once, several times or not at all, with users who may press
\* the refresh button; no conversation is deleted
NextChat ==
    \/ Notifying
    \/ \E u \in Viewers, topic \in Topics : onMessage_Duplicate(u, topic)
    \/ \E u \in Viewers, topic \in Topics : Broker_Lose(u, topic)
    \/ \E u \in Viewers : Refresh_Click(u)

SpecChat == InitChat /\ [][NextChat]_vars

\* the store: messages are created and conversations deleted through views
\* whose subscription is still being set up, so no notification is delivered
NextChatStore ==
    \/ \E u \in Viewers, toUser \in ChatUsers : Client_Mount(u, toUser)
    \/ \E u \in Viewers : Client_Unmount(u)
    \/ \E u \in Viewers : queryFn(u)
    \/ \E u \in Viewers : onSubmit(u)
    \/ \E u \in Viewers : createMessage_Succeeds(u)
    \/ \E u \in Viewers : createMessage_Fails(u)
    \/ \E u \in Viewers : mutateCreate_onSuccess(u)
    \/ Broker_Route
    \/ Deleting

SpecChatStore == InitChat /\ [][NextChatStore]_vars

\* the whole chat over a transport that delivers every notification at least
\* once to the clients subscribed when it is published, with users who never
\* press the refresh button
NextChatDelivered ==
    \/ Notifying
    \/ Deleting
    \/ \E u \in Viewers, topic \in Topics : onMessage_Duplicate(u, topic)

SpecChatDelivered == InitChat /\ [][NextChatDelivered]_vars

(* ------------------------------ claims -------------------------------- *)
\* the invocation that returned in the last step was served for a customer and
\* passed the schema: it reached the handler's database calls
ReachedStore(method) ==
    /\ last.method = method
    /\ last.cred \in Customers
    /\ last.offer_id # EmptyId
    /\ method = "DELETE" \/ last.body \in Details

\* the offers row with this id, if any
OfferById(offer_id) == {o \in offers : o.id = offer_id}

\* C1: for every customer c and offer o the store holds at most one application
\* row with customer c and offer o, also when POST invocations interleave at
\* their database calls.
C1_AtMostOneApplication ==
    \A c \in Customers, o \in OfferIds : Cardinality(ApplicationsOf(c, o)) <= 1

\* C2: on an unexpired offer O on which customer A's apply returned Success, a
\* later apply of another customer B, who holds no application on O, returns
\* Success too, and O then has the two PENDING applications of A and B.
C2_SecondApplicantSucceeds ==
    ( /\ ReachedStore("POST")
      /\ last.response.kind # "ServerError"
      /\ \E o \in OfferById(last.offer_id) : o.available_until > now
      /\ \E a \in offer_applicants :
            a.offer = last.offer_id /\ a.customer # last.cred /\ a.id \in acked
      /\ \A b \in ApplicationsOf(last.cred, last.offer_id) : b.id = last.result )
    => /\ last.response.kind = "Success"
       /\ \E a, b \in offer_applicants :
             /\ a.offer = last.offer_id /\ b.offer = last.offer_id
             /\ a.customer # last.cred /\ b.customer = last.cred
             /\ a.applicant_status = PENDING /\ b.applicant_status = PENDING

\* C3: an apply of a customer who already holds an application on O, made after
\* the first apply returned Success, answers Conflict with the duplicate reason,
\* which differs from the unavailable reason, and creates no second row.
C3_DuplicateReason ==
    ( /\ ReachedStore("POST")
      /\ last.response.kind # "ServerError"
      /\ \E o \in OfferById(last.offer_id) : o.available_until > now
      /\ \E a \in ApplicationsOf(last.cred, last.offer_id) :
            a.id \in acked /\ a.id # last.response.id )
    => /\ last.response = respondWithConflict(MsgDuplicate)
       /\ MsgDuplicate # MsgUnavailable
       /\ Cardinality(ApplicationsOf(last.cred, last.offer_id)) = 1

\* C4: an apply whose availability query runs when the offer's available_until
\* is not later than the current time answers Conflict, whatever the stored
\* offer_status, and the offers and offer_applicants tables are left as they were.
C4_ExpiredOfferConflict ==
    [][\A p \in Procs :
          ( /\ procs[p].pc = "selectOffer"
            /\ procs'[p].pc # "selectOffer"
            /\ last'.response.kind # "ServerError"
            /\ \E o \in OfferById(procs[p].offer_id) : o.available_until <= now )
          => /\ last'.method = "POST"
             /\ last'.cred = procs[p].cred
             /\ last'.offer_id = procs[p].offer_id
             /\ last'.response.kind = "Conflict"
             /\ offers' = offers
             /\ offer_applicants' = offer_applicants]_vars

\* C4 happens: an apply on an expired offer whose stored status is still
\* "available" was answered Conflict
C4_Witness ==
    /\ ReachedStore("POST")
    /\ last.response.kind = "Conflict"
    /\ \E o \in OfferById(last.offer_id) :
          o.offer_status = "available" /\ o.available_until <= now

\* C5: apply is atomic: when POST returns an error response no row inserted by
\* that invocation remains and the offer's status was not changed by it; when it
\* returns Success both the inserted row and the status update are there.
C5_ApplyIsAtomic ==
    last.method = "POST" =>
        IF last.response.kind = "Success"
        THEN /\ \E a \in offer_applicants : a.id = last.response.id
             /\ \A o \in OfferById(last.offer_id) : o.offer_status = "on_progress"
        ELSE \A a \in offer_applicants : a.id # last.result

\* C6: the stored offer_status of every offer is a member of the enum OfferStatus.
C6_OfferStatusInEnum ==
    \A o \in offers : o.offer_status \in OfferStatus

\* C7: an apply of an authenticated customer on an offer id for which no offer
\* exists answers NotFound, not Conflict, and inserts nothing.
C7_AbsentOfferNotFound ==
    ( /\ ReachedStore("POST")
      /\ last.response.kind # "ServerError"
      /\ OfferById(last.offer_id) = {} )
    => /\ last.response.kind = "NotFound"
       /\ last.result = NoId

\* what a handler checks before it verifies the bearer token
CheckedBeforeToken(method, offer_id, body) ==
    IF method = "POST" THEN body # Malformed /\ SchemaAccepts(body, offer_id)
    ELSE offer_id # EmptyId

\* what a handler checks before it compares the role
CheckedBeforeRole(method, offer_id, body) ==
    IF method = "DELETE" THEN offer_id # EmptyId
    ELSE body # Malformed /\ SchemaAccepts(body, offer_id)

\* the tables are as they were
StoreUnchanged ==
    /\ offers' = offers
    /\ offer_applicants' = offer_applicants

\* C8 as claimed: for POST, DELETE and PATCH a caller without a valid bearer
\* credential is answered Unauthorized, a caller whose role is not 'customer'
\* Forbidden, and the request changes no row of either table (stated for the
\* requests the router can deliver, whose offer id is not empty).
C8_GateAnswers ==
    [][( /\ last' # NoRequest
         /\ last'.method \in {"POST", "DELETE", "PATCH"}
         /\ last'.offer_id \in OfferIds
         /\ last'.cred \notin Customers )
       => /\ StoreUnchanged
          /\ last'.cred = NoToken => last'.response.kind = "Unauthorized"
          /\ last'.cred \in Freelancers => last'.response.kind = "Forbidden"]_vars

\* C8 as amended: the answers are Unauthorized and Forbidden for the requests
\* that pass what the handler validates before the respective check; the others
\* are answered BadRequest (ServerError for a body that is no JSON); in every
\* case the request changes no row of either table.
C8_GateBeforeMutation ==
    [][( /\ last' # NoRequest
         /\ last'.method \in {"POST", "DELETE", "PATCH"}
         /\ last'.cred \notin Customers )
       => /\ StoreUnchanged
          /\ procs' = procs
          /\ IF last'.cred = NoToken
               THEN IF CheckedBeforeToken(last'.method, last'.offer_id, last'.body)
                      THEN last'.response = respondWithUnauthorized
                      ELSE last'.response.kind \in {"BadRequest", "ServerError"}
               ELSE IF CheckedBeforeRole(last'.method, last'.offer_id, last'.body)
                      THEN last'.response = respondWithForbidden(MsgForbidden)
                      ELSE last'.response.kind \in {"BadRequest", "ServerError"}]_vars

\* C8 happens: a freelancer's DELETE was answered Forbidden while a customer's
\* application on that offer is stored
C8_Witness ==
    /\ last.method = "DELETE"
    /\ last.cred \in Freelancers
    /\ last.response.kind = "Forbidden"
    /\ \E a \in offer_applicants : a.offer = last.offer_id

\* C9: a DELETE by customer c on offer o removes the rows of c on o and no
\* other: every row of another customer or of another offer stays as it is, the
\* offers table stays as it is, and no other step removes a row.
C9_OnlyOwnApplicationRemoved ==
    [][/\ \A p \in Procs :
             (procs[p].pc = "deleteFrom" /\ procs'[p].pc = "idle")
             => /\ \A a \in offer_applicants :
                      \/ a.customer = procs[p].cred /\ a.offer = procs[p].offer_id
                      \/ a \in offer_applicants'
                /\ offers' = offers
                /\ last'.response.kind = "Success" =>
                      \A a \in offer_applicants' :
                         ~(a.customer = procs[p].cred /\ a.offer = procs[p].offer_id)
       /\ \A a \in offer_applicants :
             (\A b \in offer_applicants' : b.id # a.id)
             => \E p \in Procs :
                   /\ procs[p].pc = "deleteFrom" /\ procs'[p].pc = "idle"
                   /\ procs[p].cred = a.customer /\ procs[p].offer_id = a.offer]_vars

\* C9 happens: a customer's DELETE succeeded and another customer's application
\* on the same offer is still stored
C9_Witness ==
    /\ ReachedStore("DELETE")
    /\ last.response.kind = "Success"
    /\ \E a \in offer_applicants : a.offer = last.offer_id /\ a.customer # last.cred

\* the order of the states of an application
StatusOrder == <<PENDING, ACCEPTED, ON_THE_WAY, DONE>>
Rank(status) == CHOOSE i \in 1..Len(StatusOrder) : StatusOrder[i] = status

\* C10: a row is PENDING when apply creates it, and in every step the status of
\* a stored row stays the same or advances to the next state of
\* PENDING -> ACCEPTED -> ON_THE_WAY -> DONE.
C10_StatusForwardOnly ==
    [][/\ \A b \in offer_applicants' :
             (\A a \in offer_applicants : a.id # b.id) => b.applicant_status = PENDING
       /\ \A a \in offer_applicants, b \in offer_applicants' :
             a.id = b.id =>
                /\ b.applicant_status \in ApplicantStatus
                /\ \/ b.applicant_status = a.applicant_status
                   \/ Rank(b.applicant_status) = Rank(a.applicant_status) + 1]_vars

\* C10 happens: a PATCH has rewritten the details of a stored application
C10_Witness ==
    /\ ReachedStore("PATCH")
    /\ last.response = NoResponse
    /\ \E a \in offer_applicants :
          /\ a.id = last.result /\ a.details = last.body
          /\ a.applicant_status = PENDING

\* C11: an apply that succeeded has emitted a notification event by the time
\* its response leaves. Nothing runs for a request after its handler returned,
\* so an event not emitted by then is never emitted.
C11_ApplyEmitsNotification ==
    (last.method = "POST" /\ last.response.kind = "Success") => outbox # <<>>

\* the kinds of response of the uniform envelope
EnvelopeKinds ==
    {"Success", "BadRequest", "Unauthorized", "Forbidden", "NotFound",
     "Conflict", "ServerError"}

\* C16: every invocation returns one response of the uniform envelope; in
\* particular a PATCH that updated the application returns Success.
C16_OneEnvelopeResponse ==
    last # NoRequest
    => /\ last.response.kind \in EnvelopeKinds
       /\ (last.method = "PATCH" /\ last.result # NoId)
             => last.response.kind = "Success"

\* C17: a DELETE by an authenticated customer who holds no application on the
\* offer is answered Conflict with the message of line 198, never ServerError.
C17_NothingDeletedConflict ==
    (/\ ReachedStore("DELETE")
     /\ last.response.kind # "Success"
     /\ ApplicationsOf(last.cred, last.offer_id) = {})
    => last.response = respondWithConflict(MsgNothingDeleted)

\* C18: a step of a PATCH by customer c on offer o leaves the offers table as it
\* is, adds and removes no application, changes no status, customer or offer of
\* an application, and changes the details of no application but c's on o;
\* when c holds no application on o the handler answers NotFound (ServerError
\* if the storage fails) and changes nothing.
C18_PatchChangesOnlyDetails ==
    [][\A p \in Procs :
          (procs[p].method = "PATCH" /\ procs'[p] # procs[p])
          => /\ offers' = offers
             /\ \A b \in offer_applicants' : \E a \in offer_applicants : a.id = b.id
             /\ \A a \in offer_applicants :
                   \E b \in offer_applicants' :
                      /\ b.id = a.id
                      /\ b.applicant_status = a.applicant_status
                      /\ b.customer = a.customer
                      /\ b.offer = a.offer
                      /\ b.details # a.details
                            => /\ a.customer = procs[p].cred
                               /\ a.offer = procs[p].offer_id
             /\ (/\ procs[p].pc = "selectApplication"
                 /\ ApplicationsOf(procs[p].cred, procs[p].offer_id) = {})
                   => /\ last'.response \in
                            {respondWithNotFound(MsgNoApplication),
                             respondWithServerError}
                      /\ StoreUnchanged]_vars

\* C18 happens: a PATCH has rewritten the details of the caller's application
\* while an application of another customer is stored
C18_Witness ==
    /\ last.method = "PATCH"
    /\ last.result # NoId
    /\ \E a, b \in offer_applicants :
          /\ a.id = last.result
          /\ a.customer = last.cred
          /\ a.details = last.body
          /\ b.customer # last.cred
          /\ b.details # last.body

\* C19: a GET answers with the applicants of the offer only to the freelancer
\* who owns it; a caller without a valid credential is answered Unauthorized,
\* an authenticated caller NotFound when the offer is absent and Forbidden,
\* without any applicant, when the offer belongs to someone else (ServerError
\* if the storage fails); no step of a GET changes a table.
C19_OnlyOwnerReadsApplicants ==
    [][/\ StoreUnchanged
       /\ UNCHANGED getTables
       /\ (last' # NoRequest /\ last'.method = "GET")
          => LET r == last'.response
                 authorization == verifyBearerToken(last'.cred)
                 found == {o \in single_offers : o.id = last'.offer_id}
                 owned == {o \in found : o.freelancer = authorization.userId}
             IN  /\ authorization = NoAuthorization => r = respondWithUnauthorized
                 /\ (authorization # NoAuthorization /\ found = {})
                       => r \in {respondWithNotFound(MsgOfferNotFound),
                                 respondWithServerError}
                 /\ (authorization # NoAuthorization /\ found # {} /\ owned = {})
                       => r \in {respondWithForbidden(MsgNotOwner),
                                 respondWithServerError}
                 /\ r.kind = "Success"
                       => /\ authorization # NoAuthorization
                          /\ owned # {}
                          /\ r.applicants =
                                {[id |-> a.id, details |-> a.details,
                                  customer |-> a.customer] :
                                    a \in {x \in single_offer_applicants :
                                              x.offer = last'.offer_id}}]_vars

\* C19 happens: the owner of an offer has been answered with its applicants
\* while another freelancer's offer has applicants too
C19_Witness ==
    /\ last.method = "GET"
    /\ last.response.kind = "Success"
    /\ last.response.applicants # {}
    /\ \E a \in single_offer_applicants, o \in single_offers :
          a.offer = o.id /\ o.id # last.offer_id /\ o.freelancer # last.cred

\* the step is onSuccess of the mutateCreate of user u
IsCreateOnSuccess(u) ==
    /\ mutation[u].kind = "create"
    /\ mutation[u].stage = "succeeded"
    /\ mutation'[u] = NoMutation

\* the topics of a sequence of notifications
TopicsOf(notifications) ==
    {notifications[i].topic : i \in 1..Len(notifications)}

\* C12: for distinct users A and B whose views are open toward each other, the
\* topic A's view publishes its messages on is the topic B's view listens on,
\* so that B, once subscribed, is among the clients the broker sends it to; the
\* room topic A publishes on is chat-rooms/{B}; and what A's view publishes for
\* a message to B goes to these two topics and never to the topic A listens on.
C12_TopicsMatch ==
    [][\A A, B \in Viewers :
          (A # B /\ view[A].toUser = B /\ view[B].toUser = A)
          => /\ mqttChatMessagesPubTopic(A, B) = mqttChatMessagesSubTopic(B, A)
             /\ mqttChatMessagesPubTopic(A, B) # mqttChatMessagesSubTopic(A, B)
             /\ mqttChatRoomsPubTopic(A, B) = getPrefixedTopic("chat-rooms/" \o B)
             /\ view[B].subscribed = "yes"
                   => B \in Subscribers(mqttChatMessagesPubTopic(A, B))
             /\ (IsCreateOnSuccess(A) /\ mutation[A].toUserId = B)
                   => /\ TopicsOf(outbox') =
                            {getPrefixedTopic("chat-messages/" \o A \o "-" \o B),
                             getPrefixedTopic("chat-rooms/" \o B)}
                      /\ mqttChatMessagesSubTopic(A, B) \notin TopicsOf(outbox')]_vars

\* C12 happens: the views of two users are open toward each other and a
\* notification published by one is on its way to the other
C12_Witness ==
    \E A, B \in Viewers :
       /\ A # B /\ view[A].toUser = B /\ view[B].toUser = A
       /\ mqttChatMessagesPubTopic(A, B) \in inflight[B]
       /\ inflight[A] = {}

\* C13: something is published only by onSuccess of a mutateCreate whose
\* createMessage has stored its message; a createMessage that failed is
\* followed by no publish; and the onSuccess of each createMessage that
\* succeeded, which runs once, publishes one notification on the message topic
\* and one on the room topic.
C13_PublishAfterCreate ==
    [][/\ (outbox' # outbox /\ outbox' # <<>>)
          => \E u \in Viewers : IsCreateOnSuccess(u)
       /\ \A u \in Viewers :
             /\ (/\ mutation'[u] # mutation[u]
                 /\ mutation'[u].kind = "create"
                 /\ mutation'[u].stage = "succeeded")
                   => /\ mutation[u].kind = "create"
                      /\ mutation[u].stage = "pending"
                      /\ messages' = Append(messages,
                            [id |-> nextMessage, from |-> u,
                             to |-> mutation[u].toUserId])
             /\ (/\ mutation[u].kind = "create"
                 /\ mutation[u].stage = "pending"
                 /\ mutation'[u] = NoMutation)
                   => /\ messages' = messages
                      /\ outbox' = <<>>
             /\ (/\ mutation[u].kind = "create"
                 /\ mutation[u].stage = "succeeded"
                 /\ mutation'[u] # mutation[u])
                   => /\ mutation'[u] = NoMutation
                      /\ Len(outbox') = 2
                      /\ outbox'[1].topic = getPrefixedTopic(
                            "chat-messages/" \o u \o "-" \o mutation[u].toUserId)
                      /\ outbox'[2].topic = getPrefixedTopic(
                            "chat-rooms/" \o mutation[u].toUserId)]_vars

\* C13 happens: a message is stored and the two notifications of its creation
\* have just been published
C13_Witness ==
    /\ Len(outbox) = 2
    /\ \E i \in 1..Len(messages) :
          /\ outbox[1].topic = mqttChatMessagesPubTopic(messages[i].from, messages[i].to)
          /\ outbox[2].topic = mqttChatRoomsPubTopic(messages[i].from, messages[i].to)

\* C14: the stored messages change only in the step in which a createMessage or
\* a deleteConversation succeeds, so no delivery, repeated delivery or loss of
\* a notification changes them; a notification handed to a client makes the
\* client's open view fetch again when its topic is the one the view listens
\* on, has no effect at all otherwise, and changes nothing else but the
\* transport; and the data a fetch gives a view is the stored sequence of the
\* messages between the two users at the time of the fetch.
C14_NotificationOnlyRefetches ==
    [][/\ messages' # messages
          => \E u \in Viewers :
                /\ mutation[u].stage = "pending"
                /\ mutation'[u].stage = "succeeded"
       /\ (\E u \in Viewers : inflight'[u] # inflight[u] /\ inflight'[u] \subseteq inflight[u])
          => /\ messages' = messages
             /\ mutation' = mutation
             /\ outbox' = outbox
       /\ received' # NoDelivery
          => LET u == received'.to
                 topic == received'.topic
                 inbound == getPrefixedTopic(
                               "chat-messages/" \o view[u].toUser \o "-" \o u)
             IN  /\ messages' = messages
                 /\ mutation' = mutation
                 /\ outbox' = outbox
                 /\ \A w \in Viewers \ {u} : view'[w] = view[w]
                 /\ IF view[u].toUser # NoUser /\ topic = inbound
                      THEN view'[u] = [view[u] EXCEPT !.fetching = "requested"]
                      ELSE view'[u] = view[u]
       /\ \A u \in Viewers :
             (view[u].fetching = "requested" /\ view'[u].fetching = "idle"
                /\ view'[u].toUser # NoUser)
             => view'[u].data =
                   SelectSeq(messages,
                             LAMBDA m : \/ m.from = u /\ m.to = view[u].toUser
                                        \/ m.to = u /\ m.from = view[u].toUser)]_vars

\* C14 happens: a client whose view is open has just been handed a
\* notification on a topic the view does not listen on, and the view, which
\* shows the stored messages, is not fetching
C14_Witness ==
    /\ received # NoDelivery
    /\ view[received.to].toUser # NoUser
    /\ received.topic # mqttChatMessagesSubTopic(received.to, view[received.to].toUser)
    /\ view[received.to].fetching = "idle"
    /\ messages # <<>>

\* C15: in the step in which the deleteConversation of users A and B succeeds
\* the messages between A and B, listed in either order of the two, become the
\* empty sequence, and the messages between the users of every other pair stay
\* as they are.
C15_DeleteConversationEmptiesPair ==
    [][\A u \in Viewers :
          (/\ mutation[u].kind = "delete"
           /\ mutation[u].stage = "pending"
           /\ mutation'[u].stage = "succeeded")
          => /\ listMessages(messages', u, mutation[u].toUserId) = <<>>
             /\ listMessages(messages', mutation[u].toUserId, u) = <<>>
             /\ \A x, y \in ChatUsers :
                   {x, y} # {u, mutation[u].toUserId}
                   => listMessages(messages', x, y) = listMessages(messages, x, y)]_vars

\* C15 happens: a conversation that held a message has been deleted and a
\* message of another conversation is still stored
C15_Witness ==
    \E u \in Viewers :
       /\ mutation[u].kind = "delete" /\ mutation[u].stage = "succeeded"
       /\ nextMessage > Len(messages) + 1
       /\ messages # <<>>
       /\ listMessages(messages, u, mutation[u].toUserId) = <<>>

\* nothing is under way: no mutation, no fetch, no subscription being set up,
\* nothing published or in flight
Quiet ==
    /\ outbox = <<>>
    /\ received = NoDelivery
    /\ \A u \in Viewers :
          /\ mutation[u] = NoMutation
          /\ inflight[u] = {}
          /\ view[u].fetching = "idle"
          /\ view[u].subscribed # "requested"

\* C20: when nothing is under way any more, the open view of A toward B shows
\* every stored message from B to A. Over a transport that delivers every
\* notification at least once and with no refresh by hand, nothing happens to
\* a view when nothing is under way, so what it does not show then it never
\* shows while it stays open.
C20_ViewShowsStoredMessages ==
    Quiet
    => \A A \in Viewers :
          view[A].toUser # NoUser
          => \A i \in 1..Len(messages) :
                (messages[i].from = view[A].toUser /\ messages[i].to = A)
                => \E j \in 1..Len(view[A].data) : view[A].data[j] = messages[i]

\* C21: once a customer's DELETE on an offer has succeeded, so that the
\* application the customer had made by a successful POST is withdrawn, the
\* offer, if it is not expired and holds no application, is one that the
\* availability query of POST selects: an apply on it succeeds again.
C21_WithdrawRestoresAvailability ==
    (ReachedStore("DELETE") /\ last.response.kind = "Success")
    => \A o \in OfferById(last.offer_id) :
          (/\ o.available_until > now
           /\ \A a \in offer_applicants : a.offer # o.id)
          => SingleOffer(o.id) # {}

\* C22: the applicants a GET returns to the owner of an offer are the
\* applications stored for that offer by successful POSTs and not withdrawn
\* since: the same ids, each with its customer.
C22_ReadPathSeesWritePath ==
    (last.method = "GET" /\ last.response.kind = "Success")
    => {<<a.id, a.customer>> : a \in last.response.applicants}
          = {<<a.id, a.customer>> :
                a \in {x \in offer_applicants : x.offer = last.offer_id}}

\* C23: when nothing is under way any more, an open view shows no message that
\* is no longer stored: the view of B toward A has lost the history that A's
\* deleteConversation removed. Over a transport that delivers every
\* notification at least once and with no refresh by hand, nothing happens to
\* a view when nothing is under way, so what it still shows then it shows for
\* as long as it stays open.
C23_ViewShowsOnlyStoredMessages ==
    Quiet
    => \A B \in Viewers :
          view[B].toUser # NoUser
          => \A j \in 1..Len(view[B].data) :
                \E i \in 1..Len(messages) : messages[i] = view[B].data[j]

====
